---- MODULE Spec2Model ----
(***************************************************************************)
(* Model of code/fig_tail_dependence.py: the Gumbel-copula sampler         *)
(* gumbel_copula_sample(n, theta) (Marshall-Olkin construction with a      *)
(* Chambers-Mallows-Stuck stable variate) and the module-level statements  *)
(* that seed the process-wide generator, draw the independent Pareto       *)
(* margins, call the sampler, apply the Pareto quantile and count the      *)
(* points of the upper-tail box.                                           *)
(*                                                                         *)
(* Floating point is modelled by classes.  A float is a record             *)
(* [kind, lvl]: kind is one of nan, ninf, neg, zero, pos, pinf and lvl     *)
(* is the order of magnitude of a finite non-zero value, from -MaxLvl      *)
(* (so small that exp(-x) rounds to 1.0) to MaxLvl (so large that          *)
(* exp(-x) underflows to 0.0).  An angle W1 = pi * k / RngModulus is kept  *)
(* as the integer k, so that the signs of sin and cos of its multiples     *)
(* are computed exactly.  A rational (theta, alpha_stable, an exponent)    *)
(* is a pair <<p, q>> with q > 0.                                          *)
(***************************************************************************)
EXTENDS Integers, Sequences, FiniteSets

\* ------------------------------------------------------------- bounds

\* Largest requested sample count n (the script itself uses n = 500).
MaxN == 3
\* Seeds 0..MaxSeed are tried besides the script's own seed.
MaxSeed == 5
\* Most calls of gumbel_copula_sample in one run of the process.
MaxCalls == 2

\* ------------------------------------------------- program constants

\* np.random.seed(42)
ScriptSeed == 42
\* tail_threshold = 10
tail_threshold == 10

\* --------------------------------------------------------- rationals

Num(r) == r[1]
Den(r) == r[2]
RatEq(r, s) == Num(r) * Den(s) = Num(s) * Den(r)
RatIsInt(r) == Num(r) % Den(r) = 0
RatIsOddInt(r) == RatIsInt(r) /\ (Num(r) \div Den(r)) % 2 = 1
\* 1.0 / r, r # 0
RatInv(r) == IF Num(r) < 0 THEN <<-Den(r), -Num(r)>> ELSE <<Den(r), Num(r)>>
\* (1 - r) / r, r > 0
RatOneMinusOver(r) == <<Den(r) - Num(r), Num(r)>>

\* The parameter values tried: 0, 1/2 (both outside theta >= 1), 1 (the
\* tan branch), 2, 5/2 (the script's theta = 2.5) and 4.
Thetas == {<<0, 1>>, <<1, 2>>, <<1, 1>>, <<2, 1>>, <<5, 2>>, <<4, 1>>}

\* ------------------------------------------------------ float classes

MaxLvl == 2

NaN == [kind |-> "nan", lvl |-> 0]
PInf == [kind |-> "pinf", lvl |-> 0]
NInf == [kind |-> "ninf", lvl |-> 0]
Zero == [kind |-> "zero", lvl |-> 0]
Pos(l) == [kind |-> "pos", lvl |-> l]
Neg(l) == [kind |-> "neg", lvl |-> l]

IsNeg(x) == x.kind \in {"neg", "ninf"}
IsFin(x) == x.kind \in {"neg", "zero", "pos"}

\* A finite non-zero result of sign sgn (1 or -1) and magnitude l, with
\* overflow to an infinity and underflow to zero.
Rounded(sgn, l) ==
    IF l > MaxLvl THEN (IF sgn > 0 THEN PInf ELSE NInf)
    ELSE IF l < 0 - MaxLvl THEN Zero
    ELSE IF sgn > 0 THEN Pos(l) ELSE Neg(l)

Sgn(x) == IF IsNeg(x) THEN -1 ELSE 1

\* x / y (numpy, errstate divide='ignore', invalid='ignore')
FDiv(x, y) ==
    IF x.kind = "nan" \/ y.kind = "nan" THEN NaN
    ELSE IF ~IsFin(x) /\ ~IsFin(y) THEN NaN
    ELSE IF x.kind = "zero" /\ y.kind = "zero" THEN NaN
    ELSE IF ~IsFin(x) THEN (IF Sgn(x) * Sgn(y) > 0 THEN PInf ELSE NInf)
    ELSE IF ~IsFin(y) THEN Zero
    ELSE IF x.kind = "zero" THEN Zero
    ELSE IF y.kind = "zero" THEN (IF Sgn(x) > 0 THEN PInf ELSE NInf)
    ELSE Rounded(Sgn(x) * Sgn(y), x.lvl - y.lvl)

\* x * y
FMul(x, y) ==
    IF x.kind = "nan" \/ y.kind = "nan" THEN NaN
    ELSE IF (x.kind = "zero" /\ ~IsFin(y)) \/ (y.kind = "zero" /\ ~IsFin(x)) THEN NaN
    ELSE IF x.kind = "zero" \/ y.kind = "zero" THEN Zero
    ELSE IF ~IsFin(x) \/ ~IsFin(y) THEN (IF Sgn(x) * Sgn(y) > 0 THEN PInf ELSE NInf)
    ELSE Rounded(Sgn(x) * Sgn(y), x.lvl + y.lvl)

\* x ** e for a rational exponent e (IEEE pow): a negative base with a
\* non-integer exponent is NaN; an integer exponent keeps or drops the sign.
FPow(x, e) ==
    LET epos == Num(e) > 0
        odd == RatIsOddInt(<<IF Num(e) < 0 THEN 0 - Num(e) ELSE Num(e), Den(e)>>)
        l == IF epos THEN x.lvl ELSE 0 - x.lvl
    IN  IF Num(e) = 0 THEN Pos(0)
        ELSE IF x.kind = "nan" THEN NaN
        ELSE IF x.kind = "zero" THEN (IF epos THEN Zero ELSE PInf)
        ELSE IF x.kind = "pinf" THEN (IF epos THEN PInf ELSE Zero)
        ELSE IF x.kind = "ninf"
             THEN (IF epos THEN (IF odd THEN NInf ELSE PInf) ELSE Zero)
        ELSE IF x.kind = "pos" THEN Pos(l)
        ELSE IF ~RatIsInt(e) THEN NaN
        ELSE IF odd THEN Neg(l) ELSE Pos(l)

\* ------------------------------------------- the process-wide generator

\* np.random's generator is a deterministic stream: a state, a next-state
\* function and an output per state.  It is modelled by a full-period
\* linear congruential generator on 0..RngModulus-1; the variate drawn in
\* state k is random_sample() = k / RngModulus, a double in [0, 1).
RngModulus == 64
RngStates == 0..(RngModulus - 1)

\* np.random.seed(s): the state a seed selects.
SeedState(s) == (37 * s + 11) % RngModulus

\* The state after one variate is drawn.
NextState(k) == (5 * k + 3) % RngModulus

\* The state after j variates are drawn.
RECURSIVE Advance(_, _)
Advance(k, j) == IF j <= 0 THEN k ELSE Advance(NextState(k), j - 1)

\* The cnt variates drawn from state k, in draw order (size = cnt).
random_sample(k, cnt) == [i \in 1..cnt |-> Advance(k, i - 1)]

\* np.random.exponential(1): -log(1 - u) for the variate u = k / RngModulus.
\* u = 0 gives exactly 0.0; a low u a small value, a high u a large one.
Exponential(k) ==
    IF k = 0 THEN Zero
    ELSE IF 8 * k < RngModulus THEN Pos(-1)
    ELSE IF 8 * k >= 7 * RngModulus THEN Pos(1)
    ELSE Pos(0)

\* ------------------------------------------------------- trigonometry

\* sin(pi * a / b) for 0 <= a < 2b.  The 1e-10 margins of W1 keep the
\* argument off the exact zeros: there the value is tiny and positive.
FSin(a, b) ==
    IF a = 0 \/ a = b THEN Pos(0 - MaxLvl)
    ELSE IF a < b THEN Pos(0)
    ELSE Neg(0)

\* cos(pi * a / b) for 0 <= a < b.  cos of the double nearest pi/2 is
\* 6.1e-17, tiny and positive.
FCos(a, b) ==
    IF 2 * a < b THEN Pos(0)
    ELSE IF 2 * a = b THEN Pos(0 - MaxLvl)
    ELSE Neg(0)

\* tan(pi * a / b) for 0 <= a < b: tiny at the lower margin, huge at the
\* double nearest pi/2, negative above it.
FTan(a, b) ==
    IF a = 0 THEN Pos(0 - MaxLvl)
    ELSE IF 2 * a < b THEN Pos(0)
    ELSE IF 2 * a = b THEN Pos(MaxLvl)
    ELSE Neg(0)

\* exp(-x)
ExpNeg(x) ==
    IF x.kind = "nan" THEN "nan"
    ELSE IF x.kind = "pinf" THEN "zero"
    ELSE IF x.kind = "ninf" THEN "inf"
    ELSE IF x.kind = "zero" THEN "one"
    ELSE IF x.lvl = 0 - MaxLvl THEN "one"
    ELSE IF x.kind = "pos"
         THEN (IF x.lvl = MaxLvl THEN "zero" ELSE IF x.lvl < 0 THEN "high" ELSE "low")
    ELSE (IF x.lvl = MaxLvl THEN "inf" ELSE "above")

\* The values a coordinate U1[i], U2[i] can take: NaN, 0.0, a value of
\* (0,1) below ("low") or above ("high") the Pareto quantile of the tail
\* threshold, 1.0, a finite value above 1, +infinity.
UValues == {"nan", "zero", "low", "high", "one", "above", "inf"}

\* np.isfinite(u), u > 0, u < 1 (every comparison with NaN is False)
isfinite(u) == u \notin {"nan", "inf"}
GtZero(u) == u \in {"low", "high", "one", "above", "inf"}
LtOne(u) == u \in {"zero", "low", "high"}

\* ------------------------------------------------ gumbel_copula_sample

Min(a, b) == IF a < b THEN a ELSE b
Abs(a) == IF a < 0 THEN 0 - a ELSE a

\* alpha_stable = 1.0 / theta
alpha_stable(theta) == RatInv(theta)

\* Mutant of n_sample: one candidate more than int(n * 1.5).
n_samplePlusOne(n) == (3 * n) \div 2 + 1

\* Mutant of n_sample: 1.5 * n rounded up instead of truncated.
n_sampleCeil(n) == (3 * n + 1) \div 2

\* n_sample = int(n * 1.5)
n_sample(n) == (3 * n) \div 2

\* np.random.uniform(1e-10, np.pi - 1e-10, cnt) drawn from state k: the
\* angle pi * W1[i] / RngModulus, kept as its numerator.
uniform(k, cnt) == random_sample(k, cnt)

\* np.random.exponential(1, cnt) drawn from state k.
exponential(k, cnt) == [i \in 1..cnt |-> Exponential(Advance(k, i - 1))]

\* Mutant of Branch: the tan branch is taken for every alpha_stable >= 1.
BranchAtLeastOne(theta) ==
    IF Num(alpha_stable(theta)) >= Den(alpha_stable(theta)) THEN "tan" ELSE "cms"

\* if alpha_stable == 1: ... else: ...  The branch of the stable variate.
Branch(theta) == IF RatEq(alpha_stable(theta), <<1, 1>>) THEN "tan" ELSE "cms"

\* The stable variate of one candidate: tan(W1) when alpha_stable == 1,
\* otherwise (sin(a*W1) / cos(W1)**(1/a)) * (cos(W1 - a*W1) / W2)**((1-a)/a).
StableV(theta, w1, w2) ==
    LET a == alpha_stable(theta)
    IN  IF Branch(theta) = "tan"
        THEN FTan(w1, RngModulus)
        ELSE FMul(FDiv(FSin(Num(a) * w1, Den(a) * RngModulus),
                       FPow(FCos(w1, RngModulus), RatInv(a))),
                  FPow(FDiv(FCos(Abs(Den(a) - Num(a)) * w1, Den(a) * RngModulus), w2),
                       RatOneMinusOver(a)))

\* Mutant of GumbelU: the magnitude |E / V| is used, so that a negative V
\* no longer gives NaN or a value above 1.
GumbelUAbs(theta, e, v) ==
    LET q == FDiv(e, v)
        m == IF q.kind = "neg" THEN Pos(q.lvl) ELSE IF q.kind = "ninf" THEN PInf ELSE q
    IN  ExpNeg(FPow(m, RatInv(theta)))

\* U = exp(-(E / V) ** (1/theta))
GumbelU(theta, e, v) == ExpNeg(FPow(FDiv(e, v), RatInv(theta)))

\* Mutant of ValidPair: the upper bound u < 1 is not tested.
ValidPairNoUpperBound(u1, u2) ==
    /\ isfinite(u1) /\ isfinite(u2)
    /\ GtZero(u1)
    /\ GtZero(u2)

\* Mutant of ValidPair: only the first coordinate is tested.
ValidPairFirstOnly(u1, u2) == isfinite(u1) /\ GtZero(u1) /\ LtOne(u1)

\* valid = isfinite(U1) & isfinite(U2) & (U1 > 0) & (U1 < 1) & (U2 > 0) & (U2 < 1)
ValidPair(u1, u2) ==
    /\ isfinite(u1) /\ isfinite(u2)
    /\ GtZero(u1) /\ LtOne(u1)
    /\ GtZero(u2) /\ LtOne(u2)

\* a[mask]: the elements of a whose mask entry is True, in index order.
RECURSIVE MaskSelect(_, _)
MaskSelect(a, mask) ==
    IF a = <<>> THEN <<>>
    ELSE IF Head(mask)
         THEN <<Head(a)>> \o MaskSelect(Tail(a), Tail(mask))
         ELSE MaskSelect(Tail(a), Tail(mask))

\* Mutant of Slice: the last m elements, a[-m:], instead of the first m.
SliceLast(a, m) == SubSeq(a, Len(a) - Min(m, Len(a)) + 1, Len(a))

\* a[:m], m >= 0
Slice(a, m) == SubSeq(a, 1, Min(m, Len(a)))

\* np.column_stack([c1, c2]): the batch, kept as its two columns.
column_stack(c1, c2) == <<c1, c2>>

\* Mutant of Sample: the mask is applied to U1 only, U1[valid][:n], U2[:n].
SampleUnmaskedU2(k, n, theta) ==
    LET ns == n_sample(n)
        kW2 == Advance(k, ns)
        kE1 == Advance(kW2, ns)
        kE2 == Advance(kE1, ns)
        W1 == uniform(k, ns)
        W2 == exponential(kW2, ns)
        V == [i \in 1..ns |-> StableV(theta, W1[i], W2[i])]
        E1 == exponential(kE1, ns)
        E2 == exponential(kE2, ns)
        U1 == [i \in 1..ns |-> GumbelU(theta, E1[i], V[i])]
        U2 == [i \in 1..ns |-> GumbelU(theta, E2[i], V[i])]
        valid == [i \in 1..ns |-> ValidPair(U1[i], U2[i])]
    IN  [n_sample |-> ns, W1 |-> W1, W2 |-> W2, V |-> V, E1 |-> E1, E2 |-> E2,
         U1 |-> U1, U2 |-> U2, valid |-> valid,
         branch |-> Branch(theta),
         drawn |-> 4 * ns,
         rng |-> Advance(kE2, ns),
         out |-> column_stack(Slice(MaskSelect(U1, valid), n), Slice(U2, n))]

\* Mutant of Sample: E1 and E2 are drawn only in the general branch; the
\* tan branch reuses W2 for both.
SampleBranchDraws(k, n, theta) ==
    LET ns == n_sample(n)
        tan == Branch(theta) = "tan"
        kW2 == Advance(k, ns)
        kE1 == Advance(kW2, ns)
        kE2 == Advance(kE1, ns)
        W1 == uniform(k, ns)
        W2 == exponential(kW2, ns)
        V == [i \in 1..ns |-> StableV(theta, W1[i], W2[i])]
        E1 == IF tan THEN W2 ELSE exponential(kE1, ns)
        E2 == IF tan THEN W2 ELSE exponential(kE2, ns)
        U1 == [i \in 1..ns |-> GumbelU(theta, E1[i], V[i])]
        U2 == [i \in 1..ns |-> GumbelU(theta, E2[i], V[i])]
        valid == [i \in 1..ns |-> ValidPair(U1[i], U2[i])]
    IN  [n_sample |-> ns, W1 |-> W1, W2 |-> W2, V |-> V, E1 |-> E1, E2 |-> E2,
         U1 |-> U1, U2 |-> U2, valid |-> valid,
         branch |-> Branch(theta),
         drawn |-> IF tan THEN 2 * ns ELSE 4 * ns,
         rng |-> IF tan THEN kE1 ELSE Advance(kE2, ns),
         out |-> column_stack(Slice(MaskSelect(U1, valid), n),
                              Slice(MaskSelect(U2, valid), n))]

\* The local arrays of one call made in generator state k, the batch it
\* returns and the generator state it leaves.
Sample(k, n, theta) ==
    LET ns == n_sample(n)
        kW2 == Advance(k, ns)
        kE1 == Advance(kW2, ns)
        kE2 == Advance(kE1, ns)
        W1 == uniform(k, ns)
        W2 == exponential(kW2, ns)
        V == [i \in 1..ns |-> StableV(theta, W1[i], W2[i])]
        E1 == exponential(kE1, ns)
        E2 == exponential(kE2, ns)
        U1 == [i \in 1..ns |-> GumbelU(theta, E1[i], V[i])]
        U2 == [i \in 1..ns |-> GumbelU(theta, E2[i], V[i])]
        valid == [i \in 1..ns |-> ValidPair(U1[i], U2[i])]
    IN  [n_sample |-> ns, W1 |-> W1, W2 |-> W2, V |-> V, E1 |-> E1, E2 |-> E2,
         U1 |-> U1, U2 |-> U2, valid |-> valid,
         branch |-> Branch(theta),
         drawn |-> 4 * ns,
         rng |-> Advance(kE2, ns),
         out |-> column_stack(Slice(MaskSelect(U1, valid), n),
                              Slice(MaskSelect(U2, valid), n))]

\* The exception a call raises before it draws anything: 1.0 / theta with
\* theta = 0 raises ZeroDivisionError; nothing else in the routine raises
\* for n >= 0.
Raises(n, theta) == IF Num(theta) = 0 THEN "ZeroDivisionError" ELSE "none"

\* ------------------------------------------------------ Pareto margins

\* alpha = 1.5
alpha == <<3, 2>>

\* The values a Pareto coordinate can take: NaN, a finite value at most
\* tail_threshold ("body"), a finite value above it ("tail"), +infinity.
XValues == {"nan", "body", "tail", "inf"}

\* The class of the uniform variate u = k / RngModulus: (1 - u) ** (-1/alpha)
\* exceeds tail_threshold iff
\* tail_threshold ** Num(alpha) * (1 - u) ** Den(alpha) < 1.
UniformClass(k) ==
    IF k = 0 THEN "zero"
    ELSE IF tail_threshold ^ Num(alpha) * (RngModulus - k) ^ Den(alpha)
              < RngModulus ^ Den(alpha)
         THEN "high"
         ELSE "low"

\* Mutant of ppf: a quantile above tail_threshold is clamped to it.
ppfClamped(u) ==
    IF u = "low" \/ u = "zero" \/ u = "high" THEN "body"
    ELSE IF u = "one" THEN "inf"
    ELSE "nan"

\* pareto.ppf(u, alpha) = (1 - u) ** (-1/alpha) for u in [0, 1], NaN outside;
\* ppf(0) is the lower end 1.0 of the support and ppf(1) is +infinity.
ppf(u) ==
    IF u = "low" \/ u = "zero" THEN "body"
    ELSE IF u = "high" THEN "tail"
    ELSE IF u = "one" THEN "inf"
    ELSE "nan"

\* pareto.ppf applied to one column of a batch, element by element.
ppf_column(col) == [i \in 1..Len(col) |-> ppf(col[i])]

\* pareto.rvs(alpha, size=cnt) drawn from state k: the quantile of cnt
\* uniform variates of the process-wide generator.
rvs(k, cnt) == [i \in 1..cnt |-> ppf(UniformClass(Advance(k, i - 1)))]

\* x > tail_threshold
GtThreshold(x) == x \in {"tail", "inf"}

\* np.sum((X1 > tail_threshold) & (X2 > tail_threshold))
n_tail(X1, X2) ==
    Cardinality({i \in 1..Min(Len(X1), Len(X2)) : GtThreshold(X1[i]) /\ GtThreshold(X2[i])})

\* ---------------------------------------------------------------- state

VARIABLES
    pc,            \* the statement the process is at
    n,             \* module parameter n
    theta,         \* module parameter theta
    seed,          \* the last argument of np.random.seed, -1 before any
    rng,           \* state of the process-wide generator
    X1_indep,      \* independent Pareto margins
    X2_indep,
    U,             \* the batch the last call returned
    raised,        \* the exception that ended the process, "none" if none
    frame,         \* the local arrays of the last call
    X1_dep,        \* the transformed columns of U
    X2_dep,
    n_tail_indep,  \* counts of points in the tail box, -1 before counting
    n_tail_dep,
    calls          \* one record per call of gumbel_copula_sample, in order

vars == <<pc, n, theta, seed, rng, X1_indep, X2_indep, U, raised, frame,
          X1_dep, X2_dep, n_tail_indep, n_tail_dep, calls>>

Seeds == {ScriptSeed} \cup 0..MaxSeed
Ns == 0..MaxN

NoFrame ==
    [n_sample |-> 0, W1 |-> <<>>, W2 |-> <<>>, V |-> <<>>, E1 |-> <<>>, E2 |-> <<>>,
     U1 |-> <<>>, U2 |-> <<>>, valid |-> <<>>, branch |-> "none", drawn |-> 0,
     rng |-> 0,
     out |-> <<<<>>, <<>>>>]

\* After the imports: the generator holds whatever state the operating
\* system's entropy gave it; n and theta are the module's parameters.
Init ==
    /\ pc = "seed"
    /\ n \in Ns
    /\ theta \in Thetas
    /\ seed = -1
    /\ rng \in RngStates
    /\ X1_indep = <<>> /\ X2_indep = <<>>
    /\ U = <<<<>>, <<>>>>
    /\ raised = "none"
    /\ frame = NoFrame
    /\ X1_dep = <<>> /\ X2_dep = <<>>
    /\ n_tail_indep = -1 /\ n_tail_dep = -1
    /\ calls = <<>>

\* np.random.seed(s), the script's first statement (s = 42 there).
Seed(s) ==
    /\ pc = "seed"
    /\ seed' = s
    /\ rng' = SeedState(s)
    /\ pc' = "indep1"
    /\ UNCHANGED <<n, theta, X1_indep, X2_indep, U, raised, frame, X1_dep, X2_dep,
                   n_tail_indep, n_tail_dep, calls>>

\* X1_indep = pareto.rvs(alpha, size=n)
Rvs1 ==
    /\ pc = "indep1"
    /\ X1_indep' = rvs(rng, n)
    /\ rng' = Advance(rng, n)
    /\ pc' = "indep2"
    /\ UNCHANGED <<n, theta, seed, X2_indep, U, raised, frame, X1_dep, X2_dep,
                   n_tail_indep, n_tail_dep, calls>>

\* X2_indep = pareto.rvs(alpha, size=n)
Rvs2 ==
    /\ pc = "indep2"
    /\ X2_indep' = rvs(rng, n)
    /\ rng' = Advance(rng, n)
    /\ pc' = "call"
    /\ UNCHANGED <<n, theta, seed, X1_indep, U, raised, frame, X1_dep, X2_dep,
                   n_tail_indep, n_tail_dep, calls>>

\* U = gumbel_copula_sample(n, theta).  A caller may call again once the
\* call has returned ("called"), with or without re-seeding in between.
Call ==
    /\ pc \in {"call", "called"}
    /\ Len(calls) < MaxCalls
    /\ IF Raises(n, theta) # "none"
       THEN /\ raised' = Raises(n, theta)
            /\ pc' = "failed"
            /\ calls' = Append(calls, [seed |-> seed, before |-> rng, after |-> rng,
                                       raised |-> Raises(n, theta), out |-> <<<<>>, <<>>>>,
                                       frame |-> NoFrame])
            /\ UNCHANGED <<rng, U, frame>>
       ELSE LET f == Sample(rng, n, theta)
            IN  /\ frame' = f
                /\ U' = f.out
                /\ rng' = f.rng
                /\ pc' = "called"
                /\ calls' = Append(calls, [seed |-> seed, before |-> rng, after |-> f.rng,
                                           raised |-> "none", out |-> f.out, frame |-> f])
                /\ UNCHANGED raised
    /\ UNCHANGED <<n, theta, seed, X1_indep, X2_indep, X1_dep, X2_dep,
                   n_tail_indep, n_tail_dep>>

\* np.random.seed(s) by a caller between two calls.
Reseed(s) ==
    /\ pc = "called"
    /\ Len(calls) < MaxCalls
    /\ seed' = s
    /\ rng' = SeedState(s)
    /\ pc' = "call"
    /\ UNCHANGED <<n, theta, X1_indep, X2_indep, U, raised, frame, X1_dep, X2_dep,
                   n_tail_indep, n_tail_dep, calls>>

\* X1_dep = pareto.ppf(U[:, 0], alpha); X2_dep = pareto.ppf(U[:, 1], alpha)
Transform ==
    /\ pc = "called"
    /\ X1_dep' = ppf_column(U[1])
    /\ X2_dep' = ppf_column(U[2])
    /\ pc' = "count"
    /\ UNCHANGED <<n, theta, seed, rng, X1_indep, X2_indep, U, raised, frame,
                   n_tail_indep, n_tail_dep, calls>>

\* n_tail_indep = np.sum(...); n_tail_dep = np.sum(...)
Count ==
    /\ pc = "count"
    /\ n_tail_indep' = n_tail(X1_indep, X2_indep)
    /\ n_tail_dep' = n_tail(X1_dep, X2_dep)
    /\ pc' = "done"
    /\ UNCHANGED <<n, theta, seed, rng, X1_indep, X2_indep, U, raised, frame,
                   X1_dep, X2_dep, calls>>

Next ==
    \/ \E s \in Seeds : Seed(s)
    \/ Rvs1
    \/ Rvs2
    \/ Call
    \/ \E s \in Seeds : Reseed(s)
    \/ Transform
    \/ Count

Spec == Init /\ [][Next]_vars

\* =============================================================== claims

ThetaGeOne == Num(theta) >= Den(theta)
ThetaLtOne == Num(theta) < Den(theta)
CallIds == 1..Len(calls)
Rows(batch) == Len(batch[1])
\* The number of candidates of a call that pass the validity filter.
ValidCount(f) == Cardinality({i \in 1..f.n_sample : f.valid[i]})
\* The index of the j-th candidate that passes the filter, 0 if none.
NthValid(f, j) ==
    LET hits == {i \in 1..f.n_sample :
                    f.valid[i] /\ Cardinality({m \in 1..i : f.valid[m]}) = j}
    IN  IF hits = {} THEN 0 ELSE CHOOSE i \in hits : TRUE

\* C1: for n >= 1 and theta >= 1, every call either returns a batch of
\* exactly n rows or reports an error; it never returns fewer than n rows.
C1_ExactCountOrError ==
    \A c \in CallIds :
        (n >= 1 /\ ThetaGeOne) =>
            (calls[c].raised # "none" \/ Rows(calls[c].out) = n)

\* C2: every coordinate of every returned pair is finite and strictly
\* inside (0,1): never NaN, an infinity, 0, 1 or a value outside (0,1).
C2_ReturnedInOpenUnit ==
    \A c \in CallIds :
        \A col \in 1..2 :
            \A r \in 1..Len(calls[c].out[col]) :
                calls[c].out[col][r] \in {"low", "high"}

\* C2 witness: a call returned a row while its batch held a candidate with
\* a NaN coordinate and a candidate with a coordinate equal to 0 or 1 or
\* above 1.
C2_Witness ==
    \E c \in CallIds :
        /\ Rows(calls[c].out) >= 1
        /\ \E i \in 1..calls[c].frame.n_sample : calls[c].frame.U1[i] = "nan"
        /\ \E i \in 1..calls[c].frame.n_sample :
               calls[c].frame.U1[i] \in {"zero", "one", "above"}

\* C3: two calls made with the same seed, n and theta return identical
\* batches, also when the second call directly follows the first.
C3_SameSeedSameBatch ==
    \A c \in CallIds :
        \A d \in CallIds :
            (calls[c].seed = calls[d].seed /\ calls[c].raised = "none"
                /\ calls[d].raised = "none")
                => calls[c].out = calls[d].out

\* C4: a call with theta < 1 fails at once with an InvalidParameter error:
\* nothing is drawn, no candidate is computed, no batch is returned.  Any
\* exception raised before the first draw is counted as that rejection.
C4_ThetaBelowOneRejected ==
    \A c \in CallIds :
        ThetaLtOne =>
            /\ calls[c].raised \in {"InvalidParameter", "ZeroDivisionError"}
            /\ calls[c].after = calls[c].before
            /\ calls[c].frame.n_sample = 0

\* C5: when the valid candidates number fewer than n, the call ends with
\* an InsufficientValidSamples error rather than returning.
C5_ShortfallReported ==
    \A c \in CallIds :
        (ThetaGeOne /\ ValidCount(calls[c].frame) < n)
            => calls[c].raised = "InsufficientValidSamples"

\* C6: a call leaves the state of the process-wide generator as it found
\* it, so a result does not depend on the calls made before.
C6_GeneratorUntouched ==
    \A c \in CallIds : calls[c].after = calls[c].before

\* C7: with n = 0 and theta >= 1 a call returns the empty batch (no rows,
\* two columns), raises nothing and draws no candidate.
C7_ZeroRequestEmptyBatch ==
    \A c \in CallIds :
        (n = 0 /\ ThetaGeOne) =>
            /\ calls[c].raised = "none"
            /\ Len(calls[c].out) = 2
            /\ calls[c].out[1] = <<>> /\ calls[c].out[2] = <<>>
            /\ calls[c].frame.n_sample = 0
            /\ calls[c].frame.drawn = 0
            /\ calls[c].after = calls[c].before

\* C7 witness: a call with n = 0 and theta >= 1 has returned.
C7_Witness == n = 0 /\ ThetaGeOne /\ pc = "called" /\ Len(calls) >= 1

\* The quantile of a coordinate that passed the filter.
Quantile(u) == IF u = "high" THEN "tail" ELSE "body"

\* C8: the marginal transform maps a batch of k pairs to k pairs in the
\* same row order, row i being (Q1(U[i,1]), Q2(U[i,2])); nothing is
\* clamped, dropped or reordered.
C8_TransformRowwise ==
    pc \in {"count", "done"} =>
        /\ Len(X1_dep) = Rows(U) /\ Len(X2_dep) = Len(U[2])
        /\ \A i \in 1..Rows(U) :
               /\ X1_dep[i] = Quantile(U[1][i])
               /\ X2_dep[i] = Quantile(U[2][i])

\* C8 witness: a batch of at least two rows was transformed, with a tail
\* value in one column of a row and a body value in the other.
C8_Witness ==
    /\ pc = "count"
    /\ Rows(U) >= 2
    /\ \E i \in 1..Rows(U) : U[1][i] # U[2][i]
    /\ \E i \in 1..Rows(U) : \E j \in 1..Rows(U) : U[1][i] # U[1][j]

Returned == {c \in CallIds : calls[c].raised = "none"}

\* C11: both coordinates of a candidate come from the stable variate V at
\* that candidate's index and from two distinct exponential draws E1, E2;
\* the same mask and slice are applied to both, so the two returned
\* columns have equal length and row j pairs U1 and U2 of one candidate.
C11_SharedVariatePairedRows ==
    \A c \in Returned :
        LET f == calls[c].frame
            ns == f.n_sample
            b == calls[c].before
        IN  /\ \A i \in 1..ns :
                   /\ f.V[i] = StableV(theta, f.W1[i], f.W2[i])
                   /\ f.U1[i] = GumbelU(theta, f.E1[i], f.V[i])
                   /\ f.U2[i] = GumbelU(theta, f.E2[i], f.V[i])
                   /\ f.E1[i] = Exponential(Advance(b, 2 * ns + i - 1))
                   /\ f.E2[i] = Exponential(Advance(b, 3 * ns + i - 1))
            /\ Len(calls[c].out[1]) = Len(calls[c].out[2])
            /\ \A j \in 1..Rows(calls[c].out) :
                   /\ NthValid(f, j) # 0
                   /\ calls[c].out[1][j] = f.U1[NthValid(f, j)]
                   /\ calls[c].out[2][j] = f.U2[NthValid(f, j)]

\* C11 witness: a call dropped its first candidate and returned a row whose
\* two coordinates differ, from a candidate whose E1 and E2 differ.
C11_Witness ==
    \E c \in Returned :
        LET f == calls[c].frame
        IN  /\ Rows(calls[c].out) >= 1
            /\ ~f.valid[1]
            /\ \E j \in 1..Rows(calls[c].out) :
                   /\ calls[c].out[1][j] # calls[c].out[2][j]
                   /\ f.E1[NthValid(f, j)] # f.E2[NthValid(f, j)]

\* C12: for theta >= 1, W1 in (0, pi) and W2 > 0, every stable variate V
\* is strictly positive, in the tan branch and in the general branch.
C12_StableVariatePositive ==
    \A c \in Returned :
        ThetaGeOne =>
            \A i \in 1..calls[c].frame.n_sample :
                calls[c].frame.W2[i].kind = "pos" => calls[c].frame.V[i].kind = "pos"

\* C13: the branch V = tan(W1) is taken iff theta is exactly 1, the
\* general formula for every other theta, and a call with theta = 1
\* returns a batch without raising.
C13_TanBranchIffThetaOne ==
    \A c \in CallIds :
        /\ calls[c].raised = "none" =>
               /\ calls[c].frame.branch = "tan" <=> RatEq(theta, <<1, 1>>)
               /\ calls[c].frame.branch = "cms" <=> ~RatEq(theta, <<1, 1>>)
               /\ calls[c].frame.branch = "tan" =>
                      \A i \in 1..calls[c].frame.n_sample :
                          calls[c].frame.V[i] = FTan(calls[c].frame.W1[i], RngModulus)
        /\ RatEq(theta, <<1, 1>>) =>
               /\ calls[c].raised = "none"
               /\ Len(calls[c].out) = 2
               /\ Len(calls[c].out[1]) = Len(calls[c].out[2])

\* C13 witness: a call with theta = 1 and n >= 1 returned a row although a
\* candidate of its batch had W2 = 0 (a zero divisor in the general
\* formula).
C13_Witness ==
    \E c \in Returned :
        /\ RatEq(theta, <<1, 1>>) /\ n >= 1
        /\ Rows(calls[c].out) >= 1
        /\ \E i \in 1..calls[c].frame.n_sample : calls[c].frame.W2[i].kind = "zero"

\* C14: for every n >= 0 the batch holds floor(1.5 * n) candidates, and
\* W1, W2, V, E1, E2, U1, U2 and valid all have that length; for n = 1 a
\* single candidate is drawn.
C14_BatchLength ==
    \A c \in Returned :
        LET f == calls[c].frame
        IN  /\ 2 * f.n_sample <= 3 * n /\ 3 * n < 2 * f.n_sample + 2
            /\ n = 1 => f.n_sample = 1
            /\ Len(f.W1) = f.n_sample /\ Len(f.W2) = f.n_sample
            /\ Len(f.V) = f.n_sample
            /\ Len(f.E1) = f.n_sample /\ Len(f.E2) = f.n_sample
            /\ Len(f.U1) = f.n_sample /\ Len(f.U2) = f.n_sample
            /\ Len(f.valid) = f.n_sample

\* C14 witness: a call with an odd n, where 1.5 * n is truncated.
C14_Witness ==
    \E c \in Returned :
        n % 2 = 1 /\ Len(calls[c].frame.W1) >= 1 /\ Len(calls[c].frame.valid) < 2 * n

\* C15: the marginal transform comes last: it is evaluated only on the
\* coordinates of the batch the filter let through, never on a rejected
\* candidate or a value outside (0,1), and nothing is filtered after it.
C15_TransformAfterFilter ==
    /\ pc \notin {"count", "done"} => X1_dep = <<>> /\ X2_dep = <<>>
    /\ pc \in {"count", "done"} =>
           /\ calls # <<>>
           /\ U = calls[Len(calls)].out
           /\ \A i \in 1..Rows(U) : U[1][i] \in {"low", "high"}
           /\ \A i \in 1..Len(U[2]) : U[2][i] \in {"low", "high"}
           /\ Len(X1_dep) = Rows(U) /\ Len(X2_dep) = Rows(U)
           /\ \A i \in 1..Len(X1_dep) : X1_dep[i] \in {"body", "tail"}
           /\ \A i \in 1..Len(X2_dep) : X2_dep[i] \in {"body", "tail"}
    /\ pc = "done" => n_tail_dep <= Len(X1_dep)

\* C15 witness: the transform ran on a batch with rows, from a call that
\* rejected a candidate with a coordinate equal to 1 or 0.
C15_Witness ==
    /\ pc = "count"
    /\ Rows(U) >= 1
    /\ \E i \in 1..frame.n_sample :
           ~frame.valid[i] /\ (frame.U2[i] \in {"one", "zero"} \/ frame.U1[i] \in {"one", "zero"})

\* C16: for theta >= 1 every returned pair comes from a finite, strictly
\* positive V; a candidate whose V is NaN, infinite, zero or negative has a
\* coordinate that is NaN, 0, 1 or above 1, is rejected and never returned.
C16_BadVariateRejected ==
    \A c \in Returned :
        ThetaGeOne =>
            LET f == calls[c].frame
            IN  /\ \A i \in 1..f.n_sample :
                       f.V[i].kind # "pos" =>
                           /\ ~f.valid[i]
                           /\ \/ f.U1[i] \in {"nan", "zero", "one", "above", "inf"}
                              \/ f.U2[i] \in {"nan", "zero", "one", "above", "inf"}
                /\ \A j \in 1..Rows(calls[c].out) :
                       /\ NthValid(f, j) # 0
                       /\ f.V[NthValid(f, j)].kind = "pos"

\* C16 witness: a call with theta >= 1 returned a row and rejected a
\* candidate with a negative V.
C16_Witness ==
    \E c \in Returned :
        /\ ThetaGeOne
        /\ Rows(calls[c].out) >= 1
        /\ \E i \in 1..calls[c].frame.n_sample : calls[c].frame.V[i].kind = "neg"

\* C17 as stated: whatever theta is, a call consumes exactly
\* 4 * floor(1.5 * n) variates of the process-wide stream.
C17_DrawsWhateverTheta ==
    \A c \in CallIds : calls[c].after = Advance(calls[c].before, 4 * ((3 * n) \div 2))

\* C17 amended: a call that returns (theta # 0) consumes exactly
\* 4 * floor(1.5 * n) variates, in the block order W1, W2, E1, E2,
\* whichever branch is taken and however many candidates are invalid; the
\* state it leaves is a function of the state before and n.  A call with
\* theta = 0 raises at 1.0 / theta and consumes none.
C17_DrawsWhenReturning ==
    \A c \in CallIds :
        LET f == calls[c].frame
            ns == (3 * n) \div 2
            b == calls[c].before
        IN  /\ calls[c].raised = "none" =>
                   /\ f.drawn = 4 * ns
                   /\ calls[c].after = Advance(b, 4 * ns)
                   /\ f.W1 = uniform(b, ns)
                   /\ f.W2 = exponential(Advance(b, ns), ns)
                   /\ f.E1 = exponential(Advance(b, 2 * ns), ns)
                   /\ f.E2 = exponential(Advance(b, 3 * ns), ns)
            /\ calls[c].raised # "none" =>
                   Num(theta) = 0 /\ calls[c].after = b /\ f.drawn = 0

\* C17 witness: a call in the tan branch with n >= 2 returned fewer than
\* n rows and left the generator 4 * n_sample variates further.
C17_Witness ==
    \E c \in Returned :
        /\ n >= 2 /\ calls[c].frame.branch = "tan"
        /\ Rows(calls[c].out) < n
        /\ calls[c].after # calls[c].before

====
